---------------------------- MODULE Spec2Model ----------------------------
(***************************************************************************)
(* A model of project::SI_Symbol (libs/librepcbproject/schematics/items/   *)
(* si_symbol.cpp): the placed instance of a library symbol on a schematic  *)
(* sheet.  One instance is followed through its life: construction (from   *)
(* a saved DOM element or by fresh placement), the setters, adding to and  *)
(* removing from the scene, selection, serialization, attribute lookup and *)
(* destruction.                                                            *)
(*                                                                         *)
(* The project around the instance (circuit, component symbol variant,     *)
(* project library) is fixed at Init; the library symbol's pin list and    *)
(* the pin-signal map of the symbol-variant items are drawn from bounded   *)
(* sets so that every way in which they can agree or disagree occurs.      *)
(***************************************************************************)
EXTENDS Integers, Sequences, FiniteSets, TLC

VARIABLES
    symPins,        \* mSymbol->getPins() of library symbol "s1": a list of pin uuids
    pinSignalMap,   \* key set of mSymbVarItem->getPinSignalMap()
    st,             \* "none" | "constructed" | "failed" | "destroyed"
    inst,           \* the member fields of the SI_Symbol object
    heap,           \* objects allocated with new and not yet deleted
    gfx,            \* state of the SGI_Symbol graphics item: pos, rot, inScene
    registered,     \* the component instance has this symbol registered
    pinAdded,       \* pin objects on which addToSchematic took effect
    selected,       \* [sym |-> SI_Base::mSelected, pins |-> pin objects selected]
    outcome         \* what the last operation was called with and returned / threw

vars == <<symPins, pinSignalMap, st, inst, heap, gfx, registered, pinAdded,
          selected, outcome>>

world == <<symPins, pinSignalMap>>

-----------------------------------------------------------------------------
(* Bounds and input sets *)

MaxPins == 2

PinUuids == {"p1", "p2"}

NULL == "NULL"

NullUuid == ""

RandomUuids == {"u1", "u2"}

Points == {[x |-> 0, y |-> 0],
           [x |-> -500000, y |-> 2540000],
           [x |-> 2540000, y |-> -500000]}

Angles == {0, 90000000, -45500000}

PinLists == UNION {[1..n -> PinUuids] : n \in 0..MaxPins}

-----------------------------------------------------------------------------
(* The project the instance lives in *)

\* Circuit::getComponentInstanceByUuid: the circuit holds c1 and c2.
CircuitComponents == {"c1", "c2"}

getComponentInstanceByUuid(uuid) ==
    IF uuid \in CircuitComponents THEN uuid ELSE NULL

\* ComponentInstance::getName
ComponentName(cmp) ==
    IF cmp = "c1" THEN <<"U", "1">> ELSE <<"R", "7">>

\* The items of the component's symbol variant: i1 and i3 name library
\* symbol s1, i2 names symbol s2, which the project library does not hold.
SymbVarItems ==
    [i1 |-> [symbol |-> "s1", suffix |-> <<"A">>],
     i2 |-> [symbol |-> "s2", suffix |-> <<"B">>],
     i3 |-> [symbol |-> "s1", suffix |-> <<>>]]

getItemByUuid(cmp, uuid) ==
    IF cmp # NULL /\ uuid \in DOMAIN SymbVarItems THEN uuid ELSE NULL

getSymbolUuid(item) ==
    IF item \in DOMAIN SymbVarItems THEN SymbVarItems[item].symbol ELSE NullUuid

getSuffix(item) ==
    IF item \in DOMAIN SymbVarItems THEN SymbVarItems[item].suffix ELSE <<>>

\* ProjectLibrary::getSymbol: the library holds s1 only.
getSymbol(uuid) ==
    IF uuid = "s1" THEN "s1" ELSE NULL

\* library::Symbol::getPins of a resolved symbol
getPins(sym) ==
    IF sym = "s1" THEN symPins ELSE <<>>

\* ComponentSymbolVariantItem::getPinSignalMap (its keys)
getPinSignalMap(item) ==
    IF item \in DOMAIN SymbVarItems THEN pinSignalMap ELSE {}

-----------------------------------------------------------------------------
(* Value conversions used by the file *)

Abs(n) == IF n < 0 THEN -n ELSE n

\* XmlDomElement::setAttribute / getAttribute<T> are not part of this file.
\* The attribute text of a Length is taken to be its decimal rendering in
\* millimetres (sign, integer part, six decimals), that of an Angle its
\* decimal rendering in degrees, that of a Uuid its text.
\* Length <-> attribute text: millimetres with six decimals.
LengthToAttr(l) ==
    [neg |-> l < 0, int |-> Abs(l) \div 1000000, frac |-> Abs(l) % 1000000]

AttrToLength(s) ==
    (IF s.neg THEN -1 ELSE 1) * (s.int * 1000000 + s.frac)

\* Angle <-> attribute text: degrees with six decimals.
AngleToAttr(a) ==
    [neg |-> a < 0, int |-> Abs(a) \div 1000000, frac |-> Abs(a) % 1000000]

AttrToAngle(s) ==
    (IF s.neg THEN -1 ELSE 1) * (s.int * 1000000 + s.frac)

\* Uuid <-> attribute text: a text that is no uuid parses to the null Uuid.
UuidTexts == RandomUuids \cup {"c1", "c2", "c9", "i1", "i2", "i3", "i9"}

UuidToAttr(u) == <<"uuid", u>>

AttrToUuid(s) ==
    IF Len(s) = 2 /\ s[1] = "uuid" /\ s[2] \in UuidTexts THEN s[2] ELSE NullUuid

\* Point::toPxQPointF: the point in scene pixel coordinates.
toPxQPointF(p) == [unit |-> "px", of |-> p]

\* Angle::toDeg: the angle in degrees (kept in millionths of a degree).
toDeg(a) == [unit |-> "deg", micro |-> a]

NegDeg(d) == [d EXCEPT !.micro = -d.micro]


-----------------------------------------------------------------------------
(* Exceptions and the object's fields *)

NoErr == [type |-> "none", what |-> "none", msg |-> ""]

RuntimeError(what, msg) == [type |-> "RuntimeError", what |-> what, msg |-> msg]

LogicError == [type |-> "LogicError", what |-> "validity", msg |-> ""]

\* An exception thrown by a callee whose body is outside this file.
CalleeException(what) == [type |-> "Exception", what |-> what, msg |-> ""]

\* Heap objects: the graphics item, the pin created for the i-th library pin,
\* and the null pointer to such an object.
GfxObject == <<"gfx", 0>>

NullObject == <<"nullptr", 0>>

\* No graphics item exists.
NoGfx == [pos |-> [unit |-> "none", of |-> [x |-> 0, y |-> 0]],
          rot |-> [unit |-> "none", micro |-> 0],
          inScene |-> FALSE]

\* The fields after the member initialisers of the loading constructor:
\* the pointers are null, uuid, position and rotation default-constructed.
LoadInitialFields ==
    [mUuid |-> NullUuid, mSchematic |-> "sch1", mComponentInstance |-> NULL,
     mSymbVarItem |-> NULL, mSymbol |-> NULL, mGraphicsItem |-> NullObject,
     mPosition |-> [x |-> 0, y |-> 0], mRotation |-> 0, mPins |-> {}]

\* The fields after the member initialisers of the placing constructor.
NewInitialFields(cmp, position, rotation) ==
    [mUuid |-> NullUuid, mSchematic |-> "sch1", mComponentInstance |-> cmp,
     mSymbVarItem |-> NULL, mSymbol |-> NULL, mGraphicsItem |-> NullObject,
     mPosition |-> position, mRotation |-> rotation, mPins |-> {}]


PinObject(i) == <<"pin", i>>

\* QHash<Uuid, SI_SymbolPin*>: contains, insert (an equal key is replaced), keys, values
PinsContains(pins, uuid) == \E e \in pins : e.uuid = uuid

PinsInsert(pins, uuid, pin) ==
    {e \in pins : e.uuid # uuid} \cup {[uuid |-> uuid, pin |-> pin]}

PinsKeys(pins) == {e.uuid : e \in pins}

PinsValues(pins) == {e.pin : e \in pins}

-----------------------------------------------------------------------------
(* SI_Symbol::checkAttributesValidity *)

checkAttributesValidity_NoSymbolCheck(f) ==
    /\ f.mSymbVarItem # NULL
    /\ f.mUuid # NullUuid
    /\ f.mComponentInstance # NULL

checkAttributesValidity(f) ==
    /\ f.mSymbVarItem # NULL
    /\ f.mSymbol # NULL
    /\ f.mUuid # NullUuid
    /\ f.mComponentInstance # NULL

-----------------------------------------------------------------------------
(* SI_Symbol::init *)

ComponentUnresolved_Never(cmp) == FALSE

\* if (!mComponentInstance)
ComponentUnresolved(cmp) == cmp = NULL

\* if (!mSymbVarItem)
ItemUnresolved(item) == item = NULL

\* if (!mSymbol)
SymbolUnresolved(sym) == sym = NULL

PinDefinedTwice_Never(pins, uuid) == FALSE

\* if (mPins.contains(libPin->getUuid()))
PinDefinedTwice(pins, uuid) == PinsContains(pins, uuid)

\* if (!mSymbVarItem->getPinSignalMap().contains(libPin->getUuid()))
PinNotInMap(map, uuid) == uuid \notin map

PinCountMismatch_Never(pins, map) == FALSE

\* if (mPins.count() != mSymbVarItem->getPinSignalMap().count())
PinCountMismatch(pins, map) == Cardinality(pins) # Cardinality(map)

\* The foreach over the symbol's pins: acc = [pins, created, err]; a pin
\* object is created before either check, and the loop ends at the first throw.
RECURSIVE PinLoop(_, _, _, _)
PinLoop(i, libPins, map, acc) ==
    IF i > Len(libPins) THEN acc
    ELSE LET uuid == libPins[i]
             created == acc.created \cup {PinObject(i)}
         IN IF PinDefinedTwice(acc.pins, uuid)
            THEN [acc EXCEPT !.created = created,
                             !.err = RuntimeError("PinDefinedTwice", uuid)]
            ELSE IF PinNotInMap(map, uuid)
            THEN [acc EXCEPT !.created = created,
                             !.err = RuntimeError("PinNotInMap", uuid)]
            ELSE PinLoop(i + 1, libPins, map,
                         [acc EXCEPT !.created = created,
                                     !.pins = PinsInsert(acc.pins, uuid, PinObject(i))])

\* The graphics item as init leaves it
InitGfx(f) ==
    [pos |-> toPxQPointF(f.mPosition), rot |-> NegDeg(toDeg(f.mRotation)),
     inScene |-> FALSE]

\* init: [f: the fields when it returns or throws, created: the objects it
\* allocated, gfx: the graphics item's state, err: the exception or NoErr]
init(f0, symbVarItemUuid) ==
    LET item == getItemByUuid(f0.mComponentInstance, symbVarItemUuid)
        f1 == [f0 EXCEPT !.mSymbVarItem = item]
        sym == getSymbol(getSymbolUuid(item))
        f2 == [f1 EXCEPT !.mSymbol = sym]
        f3 == [f2 EXCEPT !.mGraphicsItem = GfxObject]
        loop == PinLoop(1, getPins(sym), getPinSignalMap(item),
                        [pins |-> {}, created |-> {}, err |-> NoErr])
        f4 == [f3 EXCEPT !.mPins = loop.pins]
        all == {GfxObject} \cup loop.created
    IN IF ItemUnresolved(item)
       THEN [f |-> f1, created |-> {}, gfx |-> NoGfx,
             err |-> RuntimeError("NoSymbVarItem", symbVarItemUuid)]
       ELSE IF SymbolUnresolved(sym)
       THEN [f |-> f2, created |-> {}, gfx |-> NoGfx,
             err |-> RuntimeError("NoSymbol", getSymbolUuid(item))]
       ELSE IF loop.err # NoErr
       THEN [f |-> f4, created |-> all, gfx |-> InitGfx(f3), err |-> loop.err]
       ELSE IF PinCountMismatch(f4.mPins, getPinSignalMap(item))
       THEN [f |-> f4, created |-> all, gfx |-> InitGfx(f3),
             err |-> RuntimeError("PinCountMismatch", "%1!=%2")]
       ELSE IF ~checkAttributesValidity(f4)
       THEN [f |-> f4, created |-> all, gfx |-> InitGfx(f3), err |-> LogicError]
       ELSE [f |-> f4, created |-> all, gfx |-> InitGfx(f3), err |-> NoErr]

-----------------------------------------------------------------------------
(* The constructors *)

\* SI_Symbol(Schematic&, const XmlDomElement&): the result as for init.
\* uuidThrows: whether getAttribute<Uuid> rejects a text that is no uuid.
LoadCtor(e, uuidThrows) ==
    LET uuid == AttrToUuid(e.uuid)
        f0 == [LoadInitialFields EXCEPT !.mUuid = uuid]
        gcUuid == AttrToUuid(e.component_instance)
        cmp == getComponentInstanceByUuid(gcUuid)
        f1 == [f0 EXCEPT !.mComponentInstance = cmp]
        f2 == [f1 EXCEPT !.mPosition = [x |-> AttrToLength(e.position.x),
                                        y |-> AttrToLength(e.position.y)],
                         !.mRotation = AttrToAngle(e.position.rotation)]
    IN IF uuid = NullUuid /\ uuidThrows
       THEN [f |-> LoadInitialFields, created |-> {}, gfx |-> NoGfx,
             err |-> RuntimeError("InvalidAttribute", "uuid")]
       ELSE IF ComponentUnresolved(cmp)
       THEN [f |-> f1, created |-> {}, gfx |-> NoGfx,
             err |-> RuntimeError("NoComponent", gcUuid)]
       ELSE init(f2, AttrToUuid(e.symbol_item))

\* SI_Symbol(Schematic&, ComponentInstance&, const Uuid&, const Point&, const Angle&)
NewCtor(cmp, symbolItem, position, rotation, randomUuid) ==
    init([NewInitialFields(cmp, position, rotation) EXCEPT !.mUuid = randomUuid],
         symbolItem)

\* The elements offered to the loading constructor
DomElements ==
    [name : {"symbol"},
     uuid : {UuidToAttr("u1"), <<"text", "zz">>},
     component_instance : {UuidToAttr("c1"), UuidToAttr("c9")},
     symbol_item : {UuidToAttr("i1"), UuidToAttr("i2"), UuidToAttr("i9")},
     position : {[x |-> LengthToAttr(-500000), y |-> LengthToAttr(2540000),
                  rotation |-> AngleToAttr(90000000)]}]

\* What a construction leaves behind: on a throw the destructor does not run.
Constructed(r, args) ==
    /\ st' = IF r.err = NoErr THEN "constructed" ELSE "failed"
    /\ inst' = r.f
    /\ heap' = heap \cup r.created
    /\ gfx' = r.gfx
    /\ registered' = FALSE
    /\ pinAdded' = {}
    /\ selected' = [sym |-> FALSE, pins |-> {}]
    /\ outcome' = [op |-> "construct", args |-> args, err |-> r.err]
    /\ UNCHANGED world

ConstructFromDom ==
    /\ st \in {"none", "destroyed"}
    /\ \E e \in DomElements, uuidThrows \in BOOLEAN :
          Constructed(LoadCtor(e, uuidThrows),
                      [route |-> "load",
                       cmp |-> AttrToUuid(e.component_instance),
                       item |-> AttrToUuid(e.symbol_item)])

ConstructNew ==
    /\ st \in {"none", "destroyed"}
    /\ \E cmp \in CircuitComponents, item \in {"i1", "i2", "i3", "i9"},
          pos \in Points, rot \in Angles, uuid \in RandomUuids :
          Constructed(NewCtor(cmp, item, pos, rot, uuid),
                      [route |-> "new", cmp |-> cmp, item |-> item])

\* ~SI_Symbol: qDeleteAll(mPins); mPins.clear(); delete mGraphicsItem
Destroy ==
    /\ st = "constructed"
    /\ st' = "destroyed"
    /\ heap' = heap \ (PinsValues(inst.mPins) \cup {inst.mGraphicsItem})
    /\ inst' = LoadInitialFields
    /\ gfx' = NoGfx
    /\ registered' = FALSE
    /\ pinAdded' = {}
    /\ selected' = [sym |-> FALSE, pins |-> {}]
    /\ outcome' = [op |-> "destroy", err |-> NoErr]
    /\ UNCHANGED world

-----------------------------------------------------------------------------
(* Setters *)

\* mGraphicsItem->setPos(newPos.toPxQPointF())
SetPositionGfx(g, newPos) == [g EXCEPT !.pos = toPxQPointF(newPos)]

SetRotationGfx_NotNegated(g, newRotation) == [g EXCEPT !.rot = toDeg(newRotation)]

\* mGraphicsItem->setRotation(-newRotation.toDeg())
SetRotationGfx(g, newRotation) == [g EXCEPT !.rot = NegDeg(toDeg(newRotation))]

\* foreach (SI_SymbolPin* pin, mPins): the pin objects the loop visits
ForeachPin(pins) == PinsValues(pins)

setPosition ==
    /\ st = "constructed"
    /\ \E newPos \in Points :
          /\ inst' = [inst EXCEPT !.mPosition = newPos]
          /\ gfx' = SetPositionGfx(gfx, newPos)
          /\ outcome' = [op |-> "setPosition", err |-> NoErr,
                         updatePosition |-> ForeachPin(inst.mPins)]
    /\ UNCHANGED <<world, st, heap, registered, pinAdded, selected>>

setRotation ==
    /\ st = "constructed"
    /\ \E newRotation \in Angles :
          /\ inst' = [inst EXCEPT !.mRotation = newRotation]
          /\ gfx' = SetRotationGfx(gfx, newRotation)
          /\ outcome' = [op |-> "setRotation", err |-> NoErr,
                         updatePosition |-> ForeachPin(inst.mPins)]
    /\ UNCHANGED <<world, st, heap, registered, pinAdded, selected>>

\* SI_Base::setSelected, mGraphicsItem->update(), pin->setSelected on each pin
setSelected ==
    /\ st = "constructed"
    /\ \E sel \in BOOLEAN :
          selected' = [sym |-> sel,
                       pins |-> IF sel THEN ForeachPin(inst.mPins) ELSE {}]
    /\ outcome' = [op |-> "setSelected", err |-> NoErr]
    /\ UNCHANGED <<world, st, inst, heap, gfx, registered, pinAdded>>

-----------------------------------------------------------------------------
(* addToSchematic / removeFromSchematic.  Both are declared throw (Exception) *)
(* and undo nothing: a callee that throws leaves what ran before it in place. *)

addToSchematic ==
    /\ st = "constructed"
    /\ registered' = TRUE
    /\ gfx' = [gfx EXCEPT !.inScene = TRUE]
    /\ pinAdded' = pinAdded \cup ForeachPin(inst.mPins)
    /\ outcome' = [op |-> "addToSchematic", err |-> NoErr]
    /\ UNCHANGED <<world, st, inst, heap, selected>>

\* mComponentInstance->registerSymbol(*this) throws: nothing has run yet.
addToSchematic_RegisterThrows ==
    /\ st = "constructed"
    /\ outcome' = [op |-> "addToSchematic", err |-> CalleeException("registerSymbol")]
    /\ UNCHANGED <<world, st, inst, heap, gfx, registered, pinAdded, selected>>

\* pin->addToSchematic(scene) throws on some pin: the symbol is registered,
\* the graphics item is in the scene and the pins visited before are added.
addToSchematic_PinThrows ==
    /\ st = "constructed"
    /\ \E failing \in ForeachPin(inst.mPins) :
       \E before \in SUBSET (ForeachPin(inst.mPins) \ {failing}) :
          pinAdded' = pinAdded \cup before
    /\ registered' = TRUE
    /\ gfx' = [gfx EXCEPT !.inScene = TRUE]
    /\ outcome' = [op |-> "addToSchematic", err |-> CalleeException("pin")]
    /\ UNCHANGED <<world, st, inst, heap, selected>>

removeFromSchematic ==
    /\ st = "constructed"
    /\ registered' = FALSE
    /\ gfx' = [gfx EXCEPT !.inScene = FALSE]
    /\ pinAdded' = pinAdded \ ForeachPin(inst.mPins)
    /\ outcome' = [op |-> "removeFromSchematic", err |-> NoErr]
    /\ UNCHANGED <<world, st, inst, heap, selected>>

\* mComponentInstance->unregisterSymbol(*this) throws: nothing has run yet.
removeFromSchematic_UnregisterThrows ==
    /\ st = "constructed"
    /\ outcome' = [op |-> "removeFromSchematic",
                   err |-> CalleeException("unregisterSymbol")]
    /\ UNCHANGED <<world, st, inst, heap, gfx, registered, pinAdded, selected>>

\* pin->removeFromSchematic(scene) throws on some pin.
removeFromSchematic_PinThrows ==
    /\ st = "constructed"
    /\ \E failing \in ForeachPin(inst.mPins) :
       \E before \in SUBSET (ForeachPin(inst.mPins) \ {failing}) :
          pinAdded' = pinAdded \ before
    /\ registered' = FALSE
    /\ gfx' = [gfx EXCEPT !.inScene = FALSE]
    /\ outcome' = [op |-> "removeFromSchematic", err |-> CalleeException("pin")]
    /\ UNCHANGED <<world, st, inst, heap, selected>>

-----------------------------------------------------------------------------
(* serializeToXmlDomElement *)

SerializedElement_SymbolUuidAsItem(f) ==
    [name |-> "symbol",
     uuid |-> UuidToAttr(f.mUuid),
     component_instance |-> UuidToAttr(f.mComponentInstance),
     symbol_item |-> UuidToAttr(getSymbolUuid(f.mSymbVarItem)),
     position |-> [x |-> LengthToAttr(f.mPosition.x),
                   y |-> LengthToAttr(f.mPosition.y),
                   rotation |-> AngleToAttr(f.mRotation)]]

\* The element built after the validity check
SerializedElement(f) ==
    [name |-> "symbol",
     uuid |-> UuidToAttr(f.mUuid),
     component_instance |-> UuidToAttr(f.mComponentInstance),
     symbol_item |-> UuidToAttr(f.mSymbVarItem),
     position |-> [x |-> LengthToAttr(f.mPosition.x),
                   y |-> LengthToAttr(f.mPosition.y),
                   rotation |-> AngleToAttr(f.mRotation)]]

NoElement == [name |-> "none"]

serializeToXmlDomElement ==
    /\ st = "constructed"
    /\ outcome' = IF ~checkAttributesValidity(inst)
                  THEN [op |-> "serialize", err |-> LogicError, ret |-> NoElement]
                  ELSE [op |-> "serialize", err |-> NoErr,
                        ret |-> SerializedElement(inst)]
    /\ UNCHANGED <<world, st, inst, heap, gfx, registered, pinAdded, selected>>

\* The element just returned is loaded, in the same circuit and library, into
\* a second instance; outcome.loaded holds that instance's fields.
LoadSerialized ==
    /\ st = "constructed"
    /\ outcome.op = "serialize"
    /\ outcome.err = NoErr
    /\ \E uuidThrows \in BOOLEAN :
          LET r == LoadCtor(outcome.ret, uuidThrows)
          IN outcome' = [op |-> "loadSerialized", err |-> r.err, loaded |-> r.f]
    /\ UNCHANGED <<world, st, inst, heap, gfx, registered, pinAdded, selected>>

-----------------------------------------------------------------------------
(* getName, getAttributeValue *)

getName(f) == ComponentName(f.mComponentInstance) \o getSuffix(f.mSymbVarItem)

AttrNamespaces == {"SYM", "", "CMP"}

AttrKeys == {"NAME", "VALUE"}

MayAskParents_AnyNamespace(attrNS, passToParents) == passToParents

\* if ((attrNS != QLatin1String("SYM")) && (passToParents))
MayAskParents(attrNS, passToParents) == attrNS # "SYM" /\ passToParents

\* [ret, value, asked]: the result, the output parameter and the parents
\* asked, in order, each with the passToParents it was given.  cmpHas/schHas:
\* whether the component instance / the schematic has a value for the key.
getAttributeValue(f, attrNS, attrKey, passToParents, value, cmpHas, schHas) ==
    IF (attrNS = "SYM" \/ attrNS = "") /\ attrKey = "NAME"
    THEN [ret |-> TRUE, value |-> getName(f), asked |-> <<>>]
    ELSE IF MayAskParents(attrNS, passToParents)
    THEN IF cmpHas
         THEN [ret |-> TRUE, value |-> <<"cmp", attrNS, attrKey>>,
               asked |-> <<[parent |-> "component", passToParents |-> FALSE]>>]
         ELSE IF schHas
         THEN [ret |-> TRUE, value |-> <<"sch", attrNS, attrKey>>,
               asked |-> <<[parent |-> "component", passToParents |-> FALSE],
                           [parent |-> "schematic", passToParents |-> TRUE]>>]
         ELSE [ret |-> FALSE, value |-> value,
               asked |-> <<[parent |-> "component", passToParents |-> FALSE],
                           [parent |-> "schematic", passToParents |-> TRUE]>>]
    ELSE [ret |-> FALSE, value |-> value, asked |-> <<>>]

GetAttributeValue ==
    /\ st = "constructed"
    /\ \E attrNS \in AttrNamespaces, attrKey \in AttrKeys,
          passToParents \in BOOLEAN, cmpHas \in BOOLEAN, schHas \in BOOLEAN :
          outcome' = [op |-> "getAttributeValue", err |-> NoErr,
                      attrNS |-> attrNS, attrKey |-> attrKey,
                      passToParents |-> passToParents,
                      cmpHas |-> cmpHas, schHas |-> schHas,
                      result |-> getAttributeValue(inst, attrNS, attrKey,
                                     passToParents, <<"old">>, cmpHas, schHas)]
    /\ UNCHANGED <<world, st, inst, heap, gfx, registered, pinAdded, selected>>

-----------------------------------------------------------------------------
Init ==
    /\ symPins \in PinLists
    /\ pinSignalMap \in SUBSET PinUuids
    /\ st = "none"
    /\ inst = LoadInitialFields
    /\ heap = {}
    /\ gfx = NoGfx
    /\ registered = FALSE
    /\ pinAdded = {}
    /\ selected = [sym |-> FALSE, pins |-> {}]
    /\ outcome = [op |-> "none", err |-> NoErr]

Next ==
    \/ ConstructFromDom
    \/ ConstructNew
    \/ Destroy
    \/ setPosition
    \/ setRotation
    \/ setSelected
    \/ addToSchematic
    \/ addToSchematic_RegisterThrows
    \/ addToSchematic_PinThrows
    \/ removeFromSchematic
    \/ removeFromSchematic_UnregisterThrows
    \/ removeFromSchematic_PinThrows
    \/ serializeToXmlDomElement

Spec == Init /\ [][Next]_vars

\* Placement, the setters, serialization and loading the serialized element
NextRoundTrip ==
    \/ ConstructFromDom
    \/ ConstructNew
    \/ setPosition
    \/ setRotation
    \/ serializeToXmlDomElement
    \/ LoadSerialized

SpecRoundTrip == Init /\ [][NextRoundTrip]_vars

\* Construction and attribute lookup
NextAttributes ==
    \/ ConstructFromDom
    \/ ConstructNew
    \/ GetAttributeValue

SpecAttributes == Init /\ [][NextAttributes]_vars

-----------------------------------------------------------------------------
(* Properties *)

Range(seq) == {seq[i] : i \in 1..Len(seq)}

\* C1: in every state of a constructed instance, whatever setters, add/remove,
\* selection and serialization calls came before, the keys of the pin map are
\* exactly the keys of the symbol-variant item's pin-signal map: same members,
\* same count, one pin object per key.
C1_PinSetMatchesPinSignalMap ==
    st = "constructed" =>
        /\ PinsKeys(inst.mPins) = getPinSignalMap(inst.mSymbVarItem)
        /\ Cardinality(inst.mPins) = Cardinality(getPinSignalMap(inst.mSymbVarItem))
        /\ Cardinality(PinsKeys(inst.mPins)) = Cardinality(inst.mPins)
        /\ Cardinality(PinsValues(inst.mPins)) = Cardinality(inst.mPins)

\* A two-pin instance that has been added to the schematic and then serialized.
C1_Witness ==
    /\ st = "constructed"
    /\ Cardinality(inst.mPins) = 2
    /\ registered
    /\ outcome.op = "serialize"

\* C2: a construction fails, with the RuntimeError naming the identifier, and
\* yields no instance whenever the component instance (loading), the
\* symbol-variant item or the library symbol (both routes) cannot be resolved.
\* (A loading constructor may fail earlier, on an unreadable uuid attribute.)
C2_UnresolvedReferenceFails ==
    outcome.op = "construct" =>
        LET a == outcome.args
            cmp == getComponentInstanceByUuid(a.cmp)
            item == getItemByUuid(cmp, a.item)
            symUuid == getSymbolUuid(item)
            attrFailed == a.route = "load" /\ outcome.err.what = "InvalidAttribute"
        IN /\ (a.route = "load" /\ cmp = NULL) =>
                  /\ st = "failed"
                  /\ attrFailed \/ outcome.err = RuntimeError("NoComponent", a.cmp)
           /\ (cmp # NULL /\ item = NULL) =>
                  /\ st = "failed"
                  /\ attrFailed \/ outcome.err = RuntimeError("NoSymbVarItem", a.item)
           /\ (cmp # NULL /\ item # NULL /\ getSymbol(symUuid) = NULL) =>
                  /\ st = "failed"
                  /\ attrFailed \/ outcome.err = RuntimeError("NoSymbol", symUuid)

\* A load whose component instance is not in the circuit has failed.
C2_Witness ==
    /\ outcome.op = "construct"
    /\ outcome.args.route = "load"
    /\ outcome.err = RuntimeError("NoComponent", "c9")
    /\ st = "failed"

\* C3: once item and symbol are resolved, init fails with a pin error exactly
\* when the symbol's pin list and the pin-signal map disagree: a pin missing
\* from the map, a map key that is no pin, or a pin uuid listed twice.
C3_PinDisagreementFails ==
    (outcome.op = "construct" /\ inst.mSymbol # NULL) =>
        LET libPins == getPins(inst.mSymbol)
            map == getPinSignalMap(inst.mSymbVarItem)
            missing == \E u \in Range(libPins) : u \notin map
            extra == \E u \in map : u \notin Range(libPins)
            twice == Cardinality(Range(libPins)) # Len(libPins)
            pinError == outcome.err.what \in
                            {"PinDefinedTwice", "PinNotInMap", "PinCountMismatch"}
        IN /\ (missing \/ extra \/ twice) => (pinError /\ st = "failed")
           /\ ~(missing \/ extra \/ twice) => ~pinError

\* A construction refused because the map has a key that is no pin of the symbol.
C3_Witness ==
    /\ outcome.op = "construct"
    /\ st = "failed"
    /\ outcome.err.what = "PinCountMismatch"
    /\ \E u \in getPinSignalMap(inst.mSymbVarItem) : u \notin Range(getPins(inst.mSymbol))

CoreReferencesNonNull(f) ==
    /\ f.mSchematic # NULL
    /\ f.mComponentInstance # NULL
    /\ f.mSymbVarItem # NULL
    /\ f.mSymbol # NULL

\* C4: checkAttributesValidity is true only of fields whose four core
\* references are non-null; a constructed instance is valid in every state,
\* and serializeToXmlDomElement never throws its LogicError.
C4_ConstructedIsValid ==
    /\ checkAttributesValidity(inst) => CoreReferencesNonNull(inst)
    /\ st = "constructed" => checkAttributesValidity(inst)
    /\ outcome.op = "serialize" => outcome.err = NoErr

\* An instance moved, added to the schematic, selected, and then serialized.
C4_Witness ==
    /\ st = "constructed"
    /\ outcome.op = "serialize"
    /\ registered
    /\ selected.sym
    /\ inst.mPosition.x < 0

C6_OwnedObjectsReleased ==
    (st = "destroyed" \/ (st = "failed" /\ outcome.err.type = "RuntimeError")) =>
        heap = {}

\* C7: for a constructed instance (with at least one pin) the symbol is
\* registered iff its graphics item is in the scene iff all its pins are added.
C7_MembershipFactsAgree ==
    (st = "constructed" /\ inst.mPins # {}) =>
        /\ registered <=> gfx.inScene
        /\ gfx.inScene <=> (PinsValues(inst.mPins) \subseteq pinAdded)

\* C8: the graphics item shows the stored position and the negated stored
\* rotation; setPosition keeps the rotation, setRotation keeps the position,
\* and each calls updatePosition on every pin.
C8_GraphicsMirrorsModel ==
    /\ [](st = "constructed" =>
            /\ gfx.pos = toPxQPointF(inst.mPosition)
            /\ gfx.rot = NegDeg(toDeg(inst.mRotation))
            /\ outcome.op \in {"setPosition", "setRotation"} =>
                   outcome.updatePosition = PinsValues(inst.mPins))
    /\ [][/\ outcome'.op = "setPosition" => inst'.mRotation = inst.mRotation
          /\ outcome'.op = "setRotation" => inst'.mPosition = inst.mPosition]_vars

\* A two-pin instance placed away from the origin and then turned.
C8_Witness ==
    /\ st = "constructed"
    /\ outcome.op = "setRotation"
    /\ inst.mRotation = -45500000
    /\ inst.mPosition.x = 2540000
    /\ Cardinality(outcome.updatePosition) = 2

\* C9: lookup order of getAttributeValue.
\*  - key NAME, namespace SYM or empty: the symbol's own name, no parent asked;
\*  - another key, namespace SYM: fails, no parent asked;
\*  - another key, another namespace, passToParents: the component instance
\*    is asked first, without delegation, the schematic only if that fails;
\*  - another key, no passToParents: fails, no parent asked, value untouched.
C9_AttributeLookupOrder ==
    outcome.op = "getAttributeValue" =>
        LET o == outcome
            r == outcome.result
            askCmp == [parent |-> "component", passToParents |-> FALSE]
            askSch == [parent |-> "schematic", passToParents |-> TRUE]
        IN /\ (o.attrKey = "NAME" /\ o.attrNS \in {"SYM", ""}) =>
                  /\ r.ret
                  /\ r.value = ComponentName(inst.mComponentInstance)
                                   \o getSuffix(inst.mSymbVarItem)
                  /\ r.asked = <<>>
           /\ (o.attrKey # "NAME" /\ o.attrNS = "SYM") =>
                  /\ ~r.ret
                  /\ r.asked = <<>>
           /\ (o.attrKey # "NAME" /\ o.attrNS # "SYM" /\ o.passToParents) =>
                  /\ r.asked = IF o.cmpHas THEN <<askCmp>> ELSE <<askCmp, askSch>>
                  /\ r.ret <=> (o.cmpHas \/ o.schHas)
           /\ (o.attrKey # "NAME" /\ ~o.passToParents) =>
                  /\ ~r.ret
                  /\ r.asked = <<>>
                  /\ r.value = <<"old">>

\* A lookup the component instance could not answer and the schematic could.
C9_Witness ==
    /\ outcome.op = "getAttributeValue"
    /\ outcome.attrNS = "CMP"
    /\ outcome.attrKey = "VALUE"
    /\ outcome.passToParents
    /\ ~outcome.cmpHas
    /\ outcome.result.ret
    /\ Len(outcome.result.asked) = 2

=============================================================================
